---- MODULE Spec2Model ----
(***************************************************************************)
(* Territory seed generator (scripts/generate-territory-seed.py).          *)
(*                                                                         *)
(* The script is a single-threaded batch job: main() checks that the       *)
(* SIRUTA extract exists, generate_seed() loads the ids of a prior export, *)
(* parses the extract and assembles the territory list in six numbered     *)
(* steps, validate_seed() reports problems and write_seed() writes the     *)
(* sorted CSV.  Each of these steps is one action.  Text is modelled as a  *)
(* sequence of one-character strings so that strip(), int(), str() and the *)
(* string order used by sorted() are computed, not assumed.  The purely    *)
(* descriptive columns (name_ro, nuts, type, urban) are copied through by  *)
(* the script and take part in no decision; they are left out of the rows. *)
(***************************************************************************)
EXTENDS Integers, Sequences, FiniteSets, TLC

VARIABLES
    siruta_exists,   \* SIRUTA_FILE.exists()
    siruta_file,     \* rows of seed/siruta-official.csv
    export_exists,   \* CURRENT_EXPORT.exists()
    current_export,  \* rows of data/territories_export.csv
    output_file,     \* rows of seed/territories.csv
    counties,        \* the module-level COUNTIES list
    pc,              \* position of main()
    id_map,          \* code -> id
    siruta_id_map,   \* siruta_code -> id
    uats,            \* result of parse_siruta()
    territories,     \* the list generate_seed() builds
    next_id,         \* the nonlocal counter of get_or_create_id
    errors,          \* the messages validate_seed() collected
    validated,       \* "pending", "passed" or "failed"
    exit_code,       \* value main() returned, -1 while it runs
    writes,          \* calls of write_seed() in the current run
    run              \* number of the current run

vars == << siruta_exists, siruta_file, export_exists, current_export, output_file,
           counties, pc, id_map, siruta_id_map, uats, territories, next_id,
           errors, validated, exit_code, writes, run >>

(***************************************************************************)
(* Bounds of the model.                                                    *)
(***************************************************************************)
MaxRows == 2

MaxPrior == 2

MaxRuns == 2

MaxParseRows == 3

(***************************************************************************)
(* Text.                                                                   *)
(***************************************************************************)
\* Python's None.  It is a one-element tuple holding a word, so it differs
\* from every text (a tuple of single characters), the empty text included.
None == << "None" >>

Range(s) == { s[i] : i \in 1..Len(s) }

\* ord() of the characters the tables and the inputs use.
CharOrd ==
    (" " :> 32) @@ ("0" :> 48) @@ ("1" :> 49) @@ ("2" :> 50) @@ ("3" :> 51) @@ ("4" :> 52) @@
    ("5" :> 53) @@ ("6" :> 54) @@ ("7" :> 55) @@ ("8" :> 56) @@ ("9" :> 57) @@ ("A" :> 65) @@
    ("B" :> 66) @@ ("C" :> 67) @@ ("D" :> 68) @@ ("E" :> 69) @@ ("F" :> 70) @@ ("G" :> 71) @@
    ("H" :> 72) @@ ("I" :> 73) @@ ("J" :> 74) @@ ("K" :> 75) @@ ("L" :> 76) @@ ("M" :> 77) @@
    ("N" :> 78) @@ ("O" :> 79) @@ ("P" :> 80) @@ ("Q" :> 81) @@ ("R" :> 82) @@ ("S" :> 83) @@
    ("T" :> 84) @@ ("U" :> 85) @@ ("V" :> 86) @@ ("W" :> 87) @@ ("X" :> 88) @@ ("Y" :> 89) @@
    ("Z" :> 90)


IsSpace(c) == c = " "

RECURSIVE LStrip(_)
LStrip(s) ==
    IF s # << >> /\ IsSpace(Head(s)) THEN LStrip(Tail(s)) ELSE s

RECURSIVE RStrip(_)
RStrip(s) ==
    IF s # << >> /\ IsSpace(s[Len(s)]) THEN RStrip(SubSeq(s, 1, Len(s) - 1)) ELSE s

\* str.strip()
Strip(s) == RStrip(LStrip(s))

RECURSIVE DigitsToInt(_, _)
DigitsToInt(s, acc) ==
    IF s = << >> THEN acc
    ELSE DigitsToInt(Tail(s), 10 * acc + (CharOrd[Head(s)] - CharOrd["0"]))

\* int() of a decimal text; int() ignores surrounding whitespace.
StrToInt(s) == DigitsToInt(Strip(s), 0)

DigitChar(d) == CHOOSE c \in DOMAIN CharOrd : CharOrd[c] = CharOrd["0"] + d

RECURSIVE IntToStr(_)
\* str() of a non-negative int
IntToStr(n) ==
    IF n < 10 THEN << DigitChar(n) >>
    ELSE Append(IntToStr(n \div 10), DigitChar(n % 10))

RECURSIVE StrLess(_, _)
\* a < b for Python str: lexicographic by code point
StrLess(a, b) ==
    IF b = << >> THEN FALSE
    ELSE IF a = << >> THEN TRUE
    ELSE IF CharOrd[Head(a)] # CharOrd[Head(b)] THEN CharOrd[Head(a)] < CharOrd[Head(b)]
    ELSE StrLess(Tail(a), Tail(b))

\* `if s:` for a text or None
Truthy(s) == s # None /\ s # << >>

EmptyDict == [ x \in {} |-> 0 ]

MaxOf(S) == CHOOSE m \in S : \A x \in S : x <= m

(***************************************************************************)
(* The embedded tables.                                                    *)
(***************************************************************************)
JUD_TO_CODE ==
    (1 :> <<"A", "B">>) @@ (2 :> <<"A", "R">>) @@ (3 :> <<"A", "G">>) @@ (4 :> <<"B", "C">>) @@
    (5 :> <<"B", "H">>) @@ (6 :> <<"B", "N">>) @@ (7 :> <<"B", "T">>) @@ (8 :> <<"B", "V">>) @@
    (9 :> <<"B", "R">>) @@ (10 :> <<"B", "Z">>) @@ (11 :> <<"C", "S">>) @@ (12 :> <<"C", "J">>) @@
    (13 :> <<"C", "T">>) @@ (14 :> <<"C", "V">>) @@ (15 :> <<"D", "B">>) @@ (16 :> <<"D", "J">>) @@
    (17 :> <<"G", "L">>) @@ (18 :> <<"G", "J">>) @@ (19 :> <<"H", "R">>) @@ (20 :> <<"H", "D">>) @@
    (21 :> <<"I", "L">>) @@ (22 :> <<"I", "S">>) @@ (23 :> <<"I", "F">>) @@ (24 :> <<"M", "M">>) @@
    (25 :> <<"M", "H">>) @@ (26 :> <<"M", "S">>) @@ (27 :> <<"N", "T">>) @@ (28 :> <<"O", "T">>) @@
    (29 :> <<"P", "H">>) @@ (30 :> <<"S", "M">>) @@ (31 :> <<"S", "J">>) @@ (32 :> <<"S", "B">>) @@
    (33 :> <<"S", "V">>) @@ (34 :> <<"T", "R">>) @@ (35 :> <<"T", "M">>) @@ (36 :> <<"T", "L">>) @@
    (37 :> <<"V", "S">>) @@ (38 :> <<"V", "L">>) @@ (39 :> <<"V", "N">>) @@ (40 :> <<"B">>) @@
    (51 :> <<"C", "L">>) @@ (52 :> <<"G", "R">>)

MACROREGIONS == <<
    [code |-> <<"R", "O", "1">>, parent |-> <<"R", "O">>],
    [code |-> <<"R", "O", "2">>, parent |-> <<"R", "O">>],
    [code |-> <<"R", "O", "3">>, parent |-> <<"R", "O">>],
    [code |-> <<"R", "O", "4">>, parent |-> <<"R", "O">>] >>

REGIONS == <<
    [code |-> <<"R", "O", "1", "1">>, parent |-> <<"R", "O", "1">>,
     counties |-> << <<"B", "H">>, <<"B", "N">>, <<"C", "J">>, <<"M", "M">>, <<"S", "J">>, <<"S", "M">> >>],
    [code |-> <<"R", "O", "1", "2">>, parent |-> <<"R", "O", "1">>,
     counties |-> << <<"A", "B">>, <<"B", "V">>, <<"C", "V">>, <<"H", "R">>, <<"M", "S">>, <<"S", "B">> >>],
    [code |-> <<"R", "O", "2", "1">>, parent |-> <<"R", "O", "2">>,
     counties |-> << <<"B", "C">>, <<"B", "T">>, <<"I", "S">>, <<"N", "T">>, <<"S", "V">>, <<"V", "S">> >>],
    [code |-> <<"R", "O", "2", "2">>, parent |-> <<"R", "O", "2">>,
     counties |-> << <<"B", "R">>, <<"B", "Z">>, <<"C", "T">>, <<"G", "L">>, <<"T", "L">>, <<"V", "N">> >>],
    [code |-> <<"R", "O", "3", "1">>, parent |-> <<"R", "O", "3">>,
     counties |-> << <<"A", "G">>, <<"C", "L">>, <<"D", "B">>, <<"G", "R">>, <<"I", "L">>, <<"P", "H">>, <<"T", "R">> >>],
    [code |-> <<"R", "O", "3", "2">>, parent |-> <<"R", "O", "3">>,
     counties |-> << <<"B">>, <<"I", "F">> >>],
    [code |-> <<"R", "O", "4", "1">>, parent |-> <<"R", "O", "4">>,
     counties |-> << <<"D", "J">>, <<"G", "J">>, <<"M", "H">>, <<"O", "T">>, <<"V", "L">> >>],
    [code |-> <<"R", "O", "4", "2">>, parent |-> <<"R", "O", "4">>,
     counties |-> << <<"A", "R">>, <<"C", "S">>, <<"H", "D">>, <<"T", "M">> >>] >>

COUNTIES == <<
    <<"A", "B">>, <<"A", "R">>, <<"A", "G">>, <<"B", "C">>, <<"B", "H">>, <<"B", "N">>,
    <<"B", "T">>, <<"B", "V">>, <<"B", "R">>, <<"B">>, <<"B", "Z">>, <<"C", "S">>,
    <<"C", "L">>, <<"C", "J">>, <<"C", "T">>, <<"C", "V">>, <<"D", "B">>, <<"D", "J">>,
    <<"G", "L">>, <<"G", "R">>, <<"G", "J">>, <<"H", "R">>, <<"H", "D">>, <<"I", "L">>,
    <<"I", "S">>, <<"I", "F">>, <<"M", "M">>, <<"M", "H">>, <<"M", "S">>, <<"N", "T">>,
    <<"O", "T">>, <<"P", "H">>, <<"S", "M">>, <<"S", "J">>, <<"S", "B">>, <<"S", "V">>,
    <<"T", "R">>, <<"T", "M">>, <<"T", "L">>, <<"V", "S">>, <<"V", "L">>, <<"V", "N">> >>

INS_ONLY_CODES == <<
    [siruta_code |-> <<"7", "0", "0", "4", "9">>, county |-> <<"D", "J">>],
    [siruta_code |-> <<"1", "6", "7", "5", "8", "9">>, county |-> <<"V", "L">>] >>

LEVEL_ORDER ==
    ("NATIONAL" :> 0) @@ ("NUTS1" :> 1) @@ ("NUTS2" :> 2) @@ ("NUTS3" :> 3) @@ ("LAU" :> 4)

(***************************************************************************)
(* load_existing_ids                                                       *)
(***************************************************************************)
\* Variant: id_map[code] = tid sits inside `if siruta:`.
LoadIdMapOnlyWithSiruta(rows) ==
    LET keyed == { i \in 1..Len(rows) : Strip(rows[i].siruta_code) # << >> }
    IN  [ c \in { rows[i].code : i \in keyed } |->
            LET last == CHOOSE i \in keyed :
                            /\ rows[i].code = c
                            /\ \A j \in keyed : j > i => rows[j].code # c
            IN  StrToInt(rows[last].id) ]

\* The reader loop assigns id_map[code] = tid row by row, so a key ends with
\* the id of the last row that carries it.
LoadIdMap(rows) ==
    [ c \in { rows[i].code : i \in 1..Len(rows) } |->
        LET last == CHOOSE i \in 1..Len(rows) :
                        /\ rows[i].code = c
                        /\ \A j \in (i + 1)..Len(rows) : rows[j].code # c
        IN  StrToInt(rows[last].id) ]

\* siruta_id_map[siruta] = tid for the rows whose stripped siruta_code is not empty
LoadSirutaMap(rows) ==
    LET keyed == { i \in 1..Len(rows) : Strip(rows[i].siruta_code) # << >> }
    IN  [ s \in { Strip(rows[i].siruta_code) : i \in keyed } |->
            LET last == CHOOSE i \in keyed :
                            /\ Strip(rows[i].siruta_code) = s
                            /\ \A j \in keyed : j > i => Strip(rows[j].siruta_code) # s
            IN  StrToInt(rows[last].id) ]

load_existing_ids ==
    IF ~export_exists THEN [id_map |-> EmptyDict, siruta_id_map |-> EmptyDict]
    ELSE [id_map |-> LoadIdMap(current_export),
          siruta_id_map |-> LoadSirutaMap(current_export)]

(***************************************************************************)
(* get_region_for_county                                                   *)
(***************************************************************************)
\* Variant: a county no region lists falls back to the first region.
get_region_for_county_default(county_code) ==
    LET hits == { i \in 1..Len(REGIONS) : county_code \in Range(REGIONS[i].counties) }
    IN  IF hits = {} THEN REGIONS[1].code
        ELSE REGIONS[CHOOSE i \in hits : \A j \in hits : i <= j].code

get_region_for_county(county_code) ==
    LET hits == { i \in 1..Len(REGIONS) : county_code \in Range(REGIONS[i].counties) }
    IN  IF hits = {} THEN None
        ELSE REGIONS[CHOOSE i \in hits : \A j \in hits : i <= j].code

(***************************************************************************)
(* parse_siruta                                                            *)
(***************************************************************************)
\* The k-th smallest element of a set of row numbers.
Nth(S, k) == CHOOSE i \in S : Cardinality({ j \in S : j < i }) = k - 1

\* Variant: the loop ends at the first local unit of an unknown jurisdiction.
KeptRowsUntilUnknown(rows) ==
    { i \in 1..Len(rows) :
        /\ rows[i].NIV = << "2" >>
        /\ StrToInt(rows[i].JUD) \in DOMAIN JUD_TO_CODE
        /\ \A j \in 1..(i - 1) :
              rows[j].NIV = << "2" >> => StrToInt(rows[j].JUD) \in DOMAIN JUD_TO_CODE }

\* The rows the reader loop does not `continue` past.
KeptRows(rows) ==
    { i \in 1..Len(rows) :
        /\ rows[i].NIV = << "2" >>
        /\ StrToInt(rows[i].JUD) \in DOMAIN JUD_TO_CODE }

\* uats.append({...}) for the kept rows, in file order
UatsOf(rows, kept) ==
    [ k \in 1..Cardinality(kept) |->
        LET row == rows[Nth(kept, k)]
        IN  [siruta_code |-> row.SIRUTA,
             county_code |-> JUD_TO_CODE[StrToInt(row.JUD)],
             source      |-> "SIRUTA"] ]

parse_siruta == UatsOf(siruta_file, KeptRows(siruta_file))

(***************************************************************************)
(* generate_seed                                                           *)
(***************************************************************************)
\* Variant: the counter starts at the largest prior id instead of one past it.
SeedNextIdNoIncrement(idm, sidm) ==
    MaxOf({ idm[k] : k \in DOMAIN idm } \cup { sidm[k] : k \in DOMAIN sidm } \cup {0})

\* line 221
SeedNextId(idm, sidm) ==
    MaxOf({ idm[k] : k \in DOMAIN idm } \cup { sidm[k] : k \in DOMAIN sidm } \cup {0}) + 1

\* Variant: the business code is looked up before the registry code.
get_or_create_id_code_first(code, siruta_code, nid) ==
    IF code \in DOMAIN id_map
        THEN [id |-> id_map[code], next_id |-> nid]
    ELSE IF Truthy(siruta_code) /\ siruta_code \in DOMAIN siruta_id_map
        THEN [id |-> siruta_id_map[siruta_code], next_id |-> nid]
    ELSE [id |-> nid, next_id |-> nid + 1]

\* Variant: a minted id does not advance the counter.
get_or_create_id_no_advance(code, siruta_code, nid) ==
    IF Truthy(siruta_code) /\ siruta_code \in DOMAIN siruta_id_map
        THEN [id |-> siruta_id_map[siruta_code], next_id |-> nid]
    ELSE IF code \in DOMAIN id_map
        THEN [id |-> id_map[code], next_id |-> nid]
    ELSE [id |-> nid, next_id |-> nid]

\* Variant: the counter is advanced before the new id is taken.
get_or_create_id_advance_first(code, siruta_code, nid) ==
    IF Truthy(siruta_code) /\ siruta_code \in DOMAIN siruta_id_map
        THEN [id |-> siruta_id_map[siruta_code], next_id |-> nid]
    ELSE IF code \in DOMAIN id_map
        THEN [id |-> id_map[code], next_id |-> nid]
    ELSE [id |-> nid + 1, next_id |-> nid + 1]

\* The closure get_or_create_id: the id it returns and the counter it leaves.
get_or_create_id(code, siruta_code, nid) ==
    IF Truthy(siruta_code) /\ siruta_code \in DOMAIN siruta_id_map
        THEN [id |-> siruta_id_map[siruta_code], next_id |-> nid]
    ELSE IF code \in DOMAIN id_map
        THEN [id |-> id_map[code], next_id |-> nid]
    ELSE [id |-> nid, next_id |-> nid + 1]

\* The entities each numbered step appends; arg is the second argument the
\* step passes to get_or_create_id.
NationalEntities ==
    << [code |-> << "R", "O" >>, arg |-> None, siruta_code |-> << >>,
        level |-> "NATIONAL", parent_code |-> << >>, source |-> "STATIC"] >>

\* Variant: a macroregion row takes its code from the 'parent' entry.
MacroregionEntitiesCodeFromParent ==
    [ i \in 1..Len(MACROREGIONS) |->
        [code |-> MACROREGIONS[i].parent, arg |-> None, siruta_code |-> << >>,
         level |-> "NUTS1", parent_code |-> << "R", "O" >>, source |-> "STATIC"] ]

MacroregionEntities ==
    [ i \in 1..Len(MACROREGIONS) |->
        [code |-> MACROREGIONS[i].code, arg |-> None, siruta_code |-> << >>,
         level |-> "NUTS1", parent_code |-> << "R", "O" >>, source |-> "STATIC"] ]

\* Variant: a region row is hung under the national root.
RegionEntitiesUnderRoot ==
    [ i \in 1..Len(REGIONS) |->
        [code |-> REGIONS[i].code, arg |-> None, siruta_code |-> << >>,
         level |-> "NUTS2", parent_code |-> << "R", "O" >>, source |-> "STATIC"] ]

RegionEntities ==
    [ i \in 1..Len(REGIONS) |->
        [code |-> REGIONS[i].code, arg |-> None, siruta_code |-> << >>,
         level |-> "NUTS2", parent_code |-> REGIONS[i].parent, source |-> "STATIC"] ]

CountyEntities ==
    [ i \in 1..Len(counties) |->
        [code |-> counties[i], arg |-> None, siruta_code |-> << >>,
         level |-> "NUTS3", parent_code |-> get_region_for_county(counties[i]),
         source |-> "STATIC"] ]

UatEntities ==
    [ i \in 1..Len(uats) |->
        [code |-> uats[i].siruta_code, arg |-> uats[i].siruta_code,
         siruta_code |-> uats[i].siruta_code,
         level |-> "LAU", parent_code |-> uats[i].county_code, source |-> "SIRUTA"] ]

InsOnlyEntities ==
    [ i \in 1..Len(INS_ONLY_CODES) |->
        [code |-> INS_ONLY_CODES[i].siruta_code, arg |-> INS_ONLY_CODES[i].siruta_code,
         siruta_code |-> INS_ONLY_CODES[i].siruta_code,
         level |-> "LAU", parent_code |-> INS_ONLY_CODES[i].county, source |-> "INS"] ]

\* How far one call of get_or_create_id moves the counter: 1 when it mints,
\* 0 when it reuses an id.
Advance(e) == get_or_create_id(e.code, e.arg, 0).next_id

\* The counter when the k-th entity of ents is reached, nid being its value
\* before the first.
CounterAt(ents, nid, k) ==
    nid + Cardinality({ j \in 1..(k - 1) : Advance(ents[j]) = 1 })

\* territories.append({'id': get_or_create_id(...), ...}) for each entity in turn
AppendAll(ents, terr, nid) ==
    [territories |->
        terr \o [ k \in 1..Len(ents) |->
                    LET e == ents[k]
                    IN  [id |-> get_or_create_id(e.code, e.arg, CounterAt(ents, nid, k)).id,
                         code |-> e.code, siruta_code |-> e.siruta_code, level |-> e.level,
                         parent_code |-> e.parent_code, source |-> e.source] ],
     next_id |-> CounterAt(ents, nid, Len(ents) + 1)]

(***************************************************************************)
(* validate_seed                                                           *)
(***************************************************************************)
\* The messages, as <<kind, code>>; a message repeated in the list is kept once.
ValidationErrors(terr) ==
    LET n            == Len(terr)
        parent_codes == { terr[i].parent_code : i \in { j \in 1..n : Truthy(terr[j].parent_code) } }
        all_codes    == { terr[i].code : i \in 1..n }
        county_uats  == { terr[i].parent_code : i \in { j \in 1..n : terr[j].level = "LAU" } }
    IN  { << "Duplicate code", terr[i].code >> :
              i \in { j \in 1..n : \E k \in 1..(j - 1) : terr[k].code = terr[j].code } }
        \cup
        { << "Duplicate siruta_code", terr[i].siruta_code >> :
              i \in { j \in 1..n : /\ Truthy(terr[j].siruta_code)
                                   /\ \E k \in 1..(j - 1) :
                                         terr[k].siruta_code = terr[j].siruta_code } }
        \cup
        { << "Unresolved parent_code", p >> : p \in { q \in parent_codes : q \notin all_codes } }
        \cup
        { << "County has no UATs", c >> : c \in { d \in Range(counties) : d \notin county_uats } }

(***************************************************************************)
(* write_seed                                                              *)
(***************************************************************************)
\* the sort key (level_order[t['level']], t['code'])
KeyLess(a, b) ==
    \/ LEVEL_ORDER[a.level] < LEVEL_ORDER[b.level]
    \/ /\ LEVEL_ORDER[a.level] = LEVEL_ORDER[b.level]
       /\ StrLess(a.code, b.code)

\* sorted(territories, key=...): ascending by key, and elements with equal keys
\* stay in their original order (Python's sort is stable).  Element i of s
\* lands after the elements that are smaller or equal-and-earlier.
Sorted(s) ==
    LET n    == Len(s)
        rank == SubSeq([ i \in 1..n |->
                           Cardinality({ j \in 1..n :
                               \/ KeyLess(s[j], s[i])
                               \/ (~KeyLess(s[i], s[j]) /\ j < i) }) + 1 ], 1, n)
    IN  [ p \in 1..n |-> s[CHOOSE i \in 1..n : rank[i] = p] ]

\* csv.DictWriter writes str(value), and the empty text for None
CsvRow(t) ==
    [id |-> IntToStr(t.id), code |-> t.code, siruta_code |-> t.siruta_code,
     level |-> t.level,
     parent_code |-> IF t.parent_code = None THEN << >> ELSE t.parent_code,
     source |-> t.source]

WrittenRows(terr) ==
    LET s == Sorted(terr) IN [ i \in 1..Len(s) |-> CsvRow(s[i]) ]

(***************************************************************************)
(* Inputs.                                                                 *)
(***************************************************************************)
SeqsUpTo(S, n) == UNION { [1..k -> S] : k \in 0..n }

Row(niv, siruta, jud) == [NIV |-> niv, SIRUTA |-> siruta, JUD |-> jud]

\* Rows of the SIRUTA extract: a local unit, a local unit carrying the code of
\* an INS-only entry, and a local unit of a jurisdiction outside JUD_TO_CODE
\* that repeats the first one's code.  Registry codes are numeric.
RegistryRows ==
    { Row(<< "2" >>, << "1" >>, << "1" >>),
      Row(<< "2" >>, << "7", "0", "0", "4", "9" >>, << "0", "1", "6" >>),
      Row(<< "2" >>, << "1" >>, << "9", "9", "9" >>) }

PriorRow(id, code, siruta) == [id |-> id, code |-> code, siruta_code |-> siruta]

\* Rows of a prior export: a static row with a blank registry code, a local
\* unit whose code is its registry code, a second row for that local unit
\* with another id, and a row whose (padded) registry code differs from its
\* code.  The ids leave gaps.
PriorRows ==
    { PriorRow(<< "3" >>, << "R", "O" >>, << " " >>),
      PriorRow(<< "7" >>, << "1" >>, << "1" >>),
      PriorRow(<< "9", "0" >>, << "1" >>, << "1" >>),
      PriorRow(<< "6", "0" >>, << "7", "0", "0", "4", "9" >>, << "1", " " >>) }

\* Prior exports of at most n rows.  A row repeated verbatim loads like its
\* last occurrence alone, so the rows of a file are taken distinct.
PriorFiles(n) ==
    { f \in SeqsUpTo(PriorRows, n) : \A i, j \in DOMAIN f : f[i] = f[j] => i = j }

\* An extract with one local unit for every jurisdiction of JUD_TO_CODE, the
\* only kind of extract validate_seed() accepts.
JudSeq ==
    LET D == DOMAIN JUD_TO_CODE
    IN  [ i \in 1..Cardinality(D) |->
            CHOOSE k \in D : Cardinality({ j \in D : j < k }) = i - 1 ]

FullExtract ==
    [ i \in 1..Len(JudSeq) |->
        Row(<< "2" >>, IntToStr(1000 + JudSeq[i]), IntToStr(JudSeq[i])) ]

Locals ==
    /\ id_map = EmptyDict
    /\ siruta_id_map = EmptyDict
    /\ uats = << >>
    /\ territories = << >>
    /\ next_id = 1
    /\ errors = {}
    /\ validated = "pending"
    /\ exit_code = -1
    /\ writes = 0

Init ==
    /\ \/ /\ siruta_exists \in BOOLEAN
          /\ siruta_file \in IF siruta_exists THEN SeqsUpTo(RegistryRows, MaxRows)
                                               ELSE { << >> }
          /\ export_exists \in BOOLEAN
          /\ current_export \in IF export_exists THEN PriorFiles(MaxPrior)
                                                  ELSE { << >> }
       \/ /\ siruta_exists = TRUE
          /\ siruta_file = FullExtract
          /\ export_exists = FALSE
          /\ current_export = << >>
    /\ output_file = << >>
    /\ counties = COUNTIES
    /\ pc = "main"
    /\ run = 1
    /\ Locals

(***************************************************************************)
(* main                                                                    *)
(***************************************************************************)
\* lines 417-420
MainCheckInput ==
    /\ pc = "main"
    /\ IF ~siruta_exists
         THEN pc' = "exit" /\ exit_code' = 1
         ELSE pc' = "load" /\ exit_code' = exit_code
    /\ UNCHANGED << siruta_exists, siruta_file, export_exists, current_export, output_file,
                    counties, id_map, siruta_id_map, uats, territories, next_id,
                    errors, validated, writes, run >>

\* line 214
LoadExistingIds ==
    /\ pc = "load"
    /\ id_map' = load_existing_ids.id_map
    /\ siruta_id_map' = load_existing_ids.siruta_id_map
    /\ pc' = "parse"
    /\ UNCHANGED << siruta_exists, siruta_file, export_exists, current_export, output_file,
                    counties, uats, territories, next_id, errors, validated, exit_code,
                    writes, run >>

\* lines 217-221
ParseSiruta ==
    /\ pc = "parse"
    /\ uats' = parse_siruta
    /\ territories' = << >>
    /\ next_id' = SeedNextId(id_map, siruta_id_map)
    /\ pc' = "national"
    /\ UNCHANGED << siruta_exists, siruta_file, export_exists, current_export, output_file,
                    counties, id_map, siruta_id_map, errors, validated, exit_code,
                    writes, run >>

\* One numbered step of generate_seed.
Step(at, ents, to) ==
    /\ pc = at
    /\ LET r == AppendAll(ents, territories, next_id)
       IN  /\ territories' = r.territories
           /\ next_id' = r.next_id
    /\ pc' = to
    /\ UNCHANGED << siruta_exists, siruta_file, export_exists, current_export, output_file,
                    counties, id_map, siruta_id_map, uats, errors, validated, exit_code,
                    writes, run >>

National == Step("national", NationalEntities, "nuts1")

Macroregions == Step("nuts1", MacroregionEntities, "nuts2")

Regions == Step("nuts2", RegionEntities, "nuts3")

Counties == Step("nuts3", CountyEntities, "lau")

Uats == Step("lau", UatEntities, "ins")

InsOnly == Step("ins", InsOnlyEntities, "validate")

\* Variant: a failed validation skips write_seed().
ValidateSeedGating ==
    /\ pc = "validate"
    /\ errors' = ValidationErrors(territories)
    /\ validated' = IF errors' = {} THEN "passed" ELSE "failed"
    /\ pc' = IF errors' = {} THEN "write" ELSE "return"
    /\ UNCHANGED << siruta_exists, siruta_file, export_exists, current_export, output_file,
                    counties, id_map, siruta_id_map, uats, territories, next_id, exit_code,
                    writes, run >>

\* lines 426-427: the result is printed and otherwise ignored
ValidateSeed ==
    /\ pc = "validate"
    /\ errors' = ValidationErrors(territories)
    /\ validated' = IF errors' = {} THEN "passed" ELSE "failed"
    /\ pc' = "write"
    /\ UNCHANGED << siruta_exists, siruta_file, export_exists, current_export, output_file,
                    counties, id_map, siruta_id_map, uats, territories, next_id, exit_code,
                    writes, run >>

\* line 430
WriteSeed ==
    /\ pc = "write"
    /\ output_file' = WrittenRows(territories)
    /\ writes' = writes + 1
    /\ pc' = "return"
    /\ UNCHANGED << siruta_exists, siruta_file, export_exists, current_export, counties,
                    id_map, siruta_id_map, uats, territories, next_id, errors, validated,
                    exit_code, run >>

\* lines 432-440
MainReturn ==
    /\ pc = "return"
    /\ exit_code' = 0
    /\ pc' = "exit"
    /\ UNCHANGED << siruta_exists, siruta_file, export_exists, current_export, output_file,
                    counties, id_map, siruta_id_map, uats, territories, next_id, errors,
                    validated, writes, run >>

\* Regeneration: the written seed becomes the export the next run loads, and
\* the script is started again on the same extract.
FeedBack ==
    /\ pc = "exit"
    /\ exit_code = 0
    /\ run < MaxRuns
    /\ current_export' = output_file
    /\ export_exists' = TRUE
    /\ run' = run + 1
    /\ pc' = "main"
    /\ id_map' = EmptyDict
    /\ siruta_id_map' = EmptyDict
    /\ uats' = << >>
    /\ territories' = << >>
    /\ next_id' = 1
    /\ errors' = {}
    /\ validated' = "pending"
    /\ exit_code' = -1
    /\ writes' = 0
    /\ UNCHANGED << siruta_exists, siruta_file, output_file, counties >>

Next ==
    \/ MainCheckInput
    \/ LoadExistingIds
    \/ ParseSiruta
    \/ National
    \/ Macroregions
    \/ Regions
    \/ Counties
    \/ Uats
    \/ InsOnly
    \/ ValidateSeed
    \/ WriteSeed
    \/ MainReturn
    \/ FeedBack

Spec == Init /\ [][Next]_vars

(***************************************************************************)
(* parse_siruta on its own, over a wider choice of rows.                   *)
(***************************************************************************)
ParseInputRows ==
    { Row(niv, siruta, jud) :
        niv \in { << "2" >>, << "3" >> },
        siruta \in { << "1" >>, << "2" >> },
        jud \in { << "1" >>, << "0", "4", "0" >>, << "9", "9", "9" >> } }

InitParse ==
    /\ siruta_exists = TRUE
    /\ siruta_file \in SeqsUpTo(ParseInputRows, MaxParseRows)
    /\ export_exists = FALSE
    /\ current_export = << >>
    /\ output_file = << >>
    /\ counties = COUNTIES
    /\ pc = "parse"
    /\ run = 1
    /\ Locals

SpecParse == InitParse /\ [][ParseSiruta]_vars

(***************************************************************************)
(* The run over a COUNTIES list that names a county no region contains.    *)
(***************************************************************************)
UnknownCounty == << "X", "X" >>

CountyTables ==
    { COUNTIES,
      Append(COUNTIES, UnknownCounty),
      [ COUNTIES EXCEPT ![1] = UnknownCounty ] }

InitCounty ==
    /\ siruta_exists = TRUE
    /\ siruta_file \in SeqsUpTo(RegistryRows, 1)
    /\ export_exists \in BOOLEAN
    /\ current_export \in IF export_exists THEN PriorFiles(1) ELSE { << >> }
    /\ output_file = << >>
    /\ counties \in CountyTables
    /\ pc = "main"
    /\ run = 1
    /\ Locals

SpecCounty == InitCounty /\ [][Next]_vars


(***************************************************************************)
(* Properties.                                                             *)
(***************************************************************************)
\* generate_seed() has just returned the complete list; validate_seed() and
\* write_seed() read it and leave it as it is.
Complete == pc = "validate"

Entities == 1..Len(territories)

ByRegistry(t) == t.siruta_code # << >> /\ t.siruta_code \in DOMAIN siruta_id_map

ByCode(t) == ~ByRegistry(t) /\ t.code \in DOMAIN id_map

IsMinted(t) == ~ByRegistry(t) /\ t.code \notin DOMAIN id_map

MintedEntities == { i \in Entities : IsMinted(territories[i]) }

PriorMapIds ==
    { id_map[k] : k \in DOMAIN id_map } \cup { siruta_id_map[k] : k \in DOMAIN siruta_id_map }

ExportIds == { StrToInt(current_export[i].id) : i \in 1..Len(current_export) }

\* The rows of the extract parse_siruta keeps.
Retained ==
    { i \in 1..Len(siruta_file) :
        /\ siruta_file[i].NIV = << "2" >>
        /\ StrToInt(siruta_file[i].JUD) \in DOMAIN JUD_TO_CODE }

StaticCodes ==
    { << "R", "O" >> } \cup { MACROREGIONS[i].code : i \in 1..Len(MACROREGIONS) }
    \cup { REGIONS[i].code : i \in 1..Len(REGIONS) } \cup Range(counties)

InsCodes == { INS_ONLY_CODES[i].siruta_code : i \in 1..Len(INS_ONLY_CODES) }

\* The retained rows name pairwise distinct local units, none of them an
\* INS-only entry or a static entity.
RegistryClean ==
    /\ \A i, j \in Retained : siruta_file[i].SIRUTA = siruta_file[j].SIRUTA => i = j
    /\ \A i \in Retained : siruta_file[i].SIRUTA \notin InsCodes \cup StaticCodes

\* The prior export's rows have pairwise distinct ids, codes and non-empty
\* registry codes.
PriorDistinct ==
    \A i, j \in 1..Len(current_export) :
        i # j =>
            /\ current_export[i].id # current_export[j].id
            /\ current_export[i].code # current_export[j].code
            /\ (current_export[i].siruta_code # << >> /\ current_export[j].siruta_code # << >>
                  => current_export[i].siruta_code # current_export[j].siruta_code)

\* Every prior row's registry code is blank or the row's own code.
PriorAligned ==
    \A i \in 1..Len(current_export) :
        Strip(current_export[i].siruta_code) \in { << >>, current_export[i].code }

\* no two entities share an id
IdsDistinct == Cardinality({ territories[i].id : i \in Entities }) = Len(territories)

\* C2 as stated: with a prior export of pairwise distinct ids, codes and
\* non-empty registry codes, the ids generate_seed assigns are pairwise
\* distinct.
C2_IdsUniqueAsClaimed == (Complete /\ PriorDistinct) => IdsDistinct

\* C2 amended: the ids are pairwise distinct when, in addition, every prior
\* row's registry code is blank or equal to its code and the retained
\* registry rows name pairwise distinct local units that are neither INS-only
\* entries nor static entities.
C2_IdsUnique == (Complete /\ PriorDistinct /\ PriorAligned /\ RegistryClean) => IdsDistinct

\* C2 witness: a complete list under those conditions holding an id reused by
\* registry code, an id reused by business code and a minted id.
C2_Witness ==
    /\ Complete /\ PriorDistinct /\ PriorAligned /\ RegistryClean
    /\ \E i, j, k \in Entities :
          /\ ByRegistry(territories[i])
          /\ ByCode(territories[j])
          /\ IsMinted(territories[k])

\* C3: an entity whose registry code is a key of the prior registry-code map
\* has that map's id; otherwise, one whose code is a key of the prior code map
\* has that map's id; otherwise its id is the counter's value at that call,
\* and only those calls have moved the counter, by one each.
C3_Priority ==
    Complete =>
        LET minted == MintedEntities
        IN  \A i \in Entities :
                LET t == territories[i]
                IN  /\ ByRegistry(t) => t.id = siruta_id_map[t.siruta_code]
                    /\ ByCode(t) => t.id = id_map[t.code]
                    /\ i \in minted =>
                         t.id = next_id - Cardinality({ j \in minted : j >= i })

\* C3 witness: an entity both maps know under different ids, next to an entity
\* reused by code and a minted one.
C3_Witness ==
    /\ Complete
    /\ \E i, j, k \in Entities :
          /\ ByRegistry(territories[i])
          /\ territories[i].code \in DOMAIN id_map
          /\ id_map[territories[i].code] # siruta_id_map[territories[i].siruta_code]
          /\ ByCode(territories[j])
          /\ IsMinted(territories[k])

Seeded ==
    pc = "national" =>
        /\ \A x \in PriorMapIds : next_id > x
        /\ next_id = 1 \/ next_id - 1 \in PriorMapIds

MintedIncreasing ==
    LET minted == MintedEntities
    IN  \A i, j \in minted : i < j => territories[i].id < territories[j].id

\* C4 as stated: the counter is seeded one past the largest id of the prior
\* maps, and every minted id exceeds every id of the prior export and every
\* id minted before it.
C4_MintedAboveExportAsClaimed ==
    /\ Seeded
    /\ Complete =>
        /\ MintedIncreasing
        /\ \A i \in MintedEntities : \A x \in ExportIds : territories[i].id > x

\* C4 amended: the counter is seeded one past the largest id of the two prior
\* maps (1 when both are empty), and every minted id exceeds every id held by
\* the two prior maps and every id minted before it.
C4_MintedAboveMaps ==
    /\ Seeded
    /\ Complete =>
        /\ MintedIncreasing
        /\ \A i \in MintedEntities : \A x \in PriorMapIds : territories[i].id > x

\* C4 witness: ids were minted although the prior maps hold an id with a gap
\* below it, under a registry code no current entity carries.
C4_Witness ==
    /\ Complete
    /\ \E i \in Entities : IsMinted(territories[i])
    /\ \E k \in DOMAIN siruta_id_map :
          /\ \A i \in Entities : territories[i].siruta_code # k
          /\ siruta_id_map[k] - 1 \notin PriorMapIds \cup {0}

\* The first run, with no prior export or one without rows.
FirstRun == run = 1 /\ (~export_exists \/ current_export = << >>)

\* C10: on a first run the i-th entity appended has id i, so the ids are
\* 1..N in the order national, macroregions, regions, counties, registry
\* local units, INS-only entries.
C10_FirstRunIds ==
    (FirstRun /\ Complete) =>
        /\ \A i \in Entities : territories[i].id = i
        /\ \A i, j \in Entities :
              i < j => /\ LEVEL_ORDER[territories[i].level] <= LEVEL_ORDER[territories[j].level]
                       /\ territories[i].source = "INS" => territories[j].source = "INS"

\* C10 witness: a complete first-run list holding two registry local units.
C10_Witness ==
    /\ FirstRun /\ Complete
    /\ Len(uats) = 2
    /\ Len(territories) = 1 + Len(MACROREGIONS) + Len(REGIONS) + Len(counties)
                            + Len(uats) + Len(INS_ONLY_CODES)

\* no two entities share a code
CodesDistinct == Cardinality({ territories[i].code : i \in Entities }) = Len(territories)

\* no two entities share a non-empty registry code
SirutaDistinct ==
    LET carrying == { i \in Entities : territories[i].siruta_code # << >> }
    IN  Cardinality({ territories[i].siruta_code : i \in carrying }) = Cardinality(carrying)

\* C5 as stated: for every extract and prior export the codes of the output
\* entities are pairwise distinct, and so are the non-empty registry codes.
C5_KeysUniqueAsClaimed == Complete => (CodesDistinct /\ SirutaDistinct)

\* C5 amended: the codes and the non-empty registry codes are pairwise
\* distinct when the retained registry rows name pairwise distinct local
\* units, none of them an INS-only entry or a static entity.
C5_KeysUnique == (Complete /\ RegistryClean) => (CodesDistinct /\ SirutaDistinct)

\* C5 witness: a complete list of static rows, a registry local unit and the
\* INS-only entries, from an extract that also held a dropped row.
C5_Witness ==
    /\ Complete /\ RegistryClean
    /\ Len(uats) = 1
    /\ Len(siruta_file) = 2
    /\ \E i \in Entities : territories[i].source = "INS"

LevelDepth(i) == LEVEL_ORDER[territories[i].level]

\* the entities whose code is entity i's parent_code
Resolved(i) == { j \in Entities : territories[j].code = territories[i].parent_code }

\* For each entity the entity its parent_code names, 0 when it names none or
\* several.
ParentIndex ==
    SubSeq([ i \in Entities |->
               LET r == Resolved(i)
               IN  IF Cardinality(r) = 1 THEN CHOOSE j \in r : TRUE ELSE 0 ],
           1, Len(territories))

RECURSIVE Up(_, _, _)
\* the entity reached from i by following k parent_code links, 0 when a link
\* leads nowhere
Up(parent, i, k) ==
    IF k = 0 \/ i = 0 THEN i ELSE Up(parent, parent[i], k - 1)

\* C6: there is one NATIONAL root; every other entity has a non-empty
\* parent_code naming exactly one entity, another one, of the level just
\* above; and k parent links lead to the root exactly for k = level depth.
C6_Tree ==
    Complete =>
        LET parent == ParentIndex
            root   == { i \in Entities : territories[i].level = "NATIONAL" }
        IN  /\ Cardinality(root) = 1
            /\ \A i \in Entities \ root :
                  /\ Truthy(territories[i].parent_code)
                  /\ parent[i] # 0
                  /\ parent[i] # i
                  /\ LevelDepth(parent[i]) = LevelDepth(i) - 1
                  /\ \A k \in 0..LevelDepth(i) :
                        Up(parent, i, k) \in root <=> k = LevelDepth(i)

\* C6 witness: a complete list in which a registry local unit and an INS-only
\* entry both reach the root in four steps.
C6_Witness ==
    /\ Complete
    /\ \E i, j \in Entities :
          /\ territories[i].source = "SIRUTA"
          /\ territories[j].source = "INS"
          /\ territories[Up(ParentIndex, i, 4)].level = "NATIONAL"
          /\ territories[Up(ParentIndex, j, 4)].level = "NATIONAL"

\* A later run has ended: current_export is the output of the run before and
\* output_file the output of this one, over the same extract.
Regenerated == run >= 2 /\ pc = "exit" /\ exit_code = 0

SameKeys(o, p) == o.code = p.code /\ o.siruta_code = p.siruta_code

\* C1 as stated: every row of the second output has the id of the row of the
\* first output with the same code and registry code.
C1_StableAsClaimed ==
    Regenerated =>
        \A j \in 1..Len(current_export) : \A i \in 1..Len(output_file) :
            SameKeys(output_file[i], current_export[j])
                => output_file[i].id = current_export[j].id

\* C1 amended: every row of the second output has the id of the row of the
\* first output with the same code and registry code, for the codes that
\* exactly one row of the first output carries.
C1_Stable ==
    Regenerated =>
        \A j \in 1..Len(current_export) :
            (\A k \in 1..Len(current_export) :
                current_export[k].code = current_export[j].code => k = j)
            => \A i \in 1..Len(output_file) :
                  SameKeys(output_file[i], current_export[j])
                      => output_file[i].id = current_export[j].id

\* C1 witness: a second run has ended whose input held a registry local unit
\* under a code of its own and another code carried by two rows.
C1_Witness ==
    /\ Regenerated
    /\ \E j \in 1..Len(current_export) :
          /\ current_export[j].source = "SIRUTA"
          /\ \A k \in 1..Len(current_export) :
                current_export[k].code = current_export[j].code => k = j
          /\ \E i \in 1..Len(output_file) : SameKeys(output_file[i], current_export[j])
    /\ \E j, k \in 1..Len(current_export) :
          j # k /\ current_export[j].code = current_export[k].code

\* C9: without the extract main() ends with exit code 1 before anything is
\* loaded, parsed, validated or written; with it the list is validated only
\* once it is complete, written only after validation, written once whatever
\* validation found, and the exit code is 0.
C9_ExitContract ==
    /\ ~siruta_exists =>
          /\ pc \in { "main", "exit" }
          /\ pc = "exit" => exit_code = 1
          /\ writes = 0 /\ output_file = << >>
          /\ territories = << >> /\ uats = << >> /\ validated = "pending"
          /\ id_map = EmptyDict /\ siruta_id_map = EmptyDict
    /\ siruta_exists =>
          /\ exit_code \in { -1, 0 }
          /\ exit_code = 0 <=> pc = "exit"
          /\ validated # "pending" <=> pc \in { "write", "return", "exit" }
          /\ writes = 1 <=> pc \in { "return", "exit" }
          /\ writes \in { 0, 1 }

\* C9 witness: a run ended with exit code 0 and one write although
\* validation reported issues.
C9_Witness ==
    /\ pc = "exit" /\ exit_code = 0
    /\ validated = "failed" /\ errors # {}
    /\ writes = 1

IsLocalUnitOfKnownCounty(row) ==
    row.NIV = << "2" >> /\ StrToInt(row.JUD) \in DOMAIN JUD_TO_CODE

\* C8: parse_siruta returns, in input order, exactly the rows whose NIV is
\* '2' and whose JUD is a key of JUD_TO_CODE, each with its code and the
\* county of its JUD; a local unit of an unknown jurisdiction is left out
\* and the rows around it are kept.
C8_Retained ==
    pc = "national" =>
        LET kept == SelectSeq(siruta_file, IsLocalUnitOfKnownCounty)
        IN  /\ Len(uats) = Len(kept)
            /\ \A k \in 1..Len(kept) :
                  /\ uats[k].siruta_code = kept[k].SIRUTA
                  /\ uats[k].county_code = JUD_TO_CODE[StrToInt(kept[k].JUD)]

\* C8 witness: three rows parsed, the middle one a local unit of an unknown
\* jurisdiction, the first and the last returned.
C8_Witness ==
    /\ pc = "national"
    /\ Len(siruta_file) = 3
    /\ siruta_file[2].NIV = << "2" >>
    /\ StrToInt(siruta_file[2].JUD) \notin DOMAIN JUD_TO_CODE
    /\ Len(uats) = 2
    /\ uats[1].siruta_code = siruta_file[1].SIRUTA
    /\ uats[2].siruta_code = siruta_file[3].SIRUTA

\* The counties of the COUNTIES list that no region's list contains.
Orphans ==
    { c \in Range(counties) : \A r \in 1..Len(REGIONS) : c \notin Range(REGIONS[r].counties) }

CountiesBuilt == pc \in { "lau", "ins", "validate", "write", "return", "exit" }

====
